---- MODULE Spec2Model ----
(***************************************************************************)
(* A model of the tiny-ssb feed store (src/src/feed.py): one .log file     *)
(* (128-byte header and 128-byte packet frames), its _blobs side store and *)
(* one in-memory Feed handle.  The packet codec (packet.py) and ssb_util   *)
(* are collaborators of feed.py; they are modelled from their interface:   *)
(* message IDs, signatures and blob signatures are ideal hashes, written   *)
(* as the tuple of what they are computed from.                            *)
(*                                                                         *)
(* The second part models the functions of the version layer               *)
(* (src/update_poc/poc/version_util.py): the line diff, its encoding, and  *)
(* the jumps between versions.  Their computations use the variables vpc   *)
(* (the position) and vu (the arguments, locals and results); the feed     *)
(* store does not move while they run, and they do not move in the         *)
(* specifications of the feed store.                                      *)
(***************************************************************************)
EXTENDS Integers, Sequences, FiniteSets, TLC

VARIABLES header, frames, blobstore, feed, pc, pend, ret, fault, vpc, vu

vars == <<header, frames, blobstore, feed, pc, pend, ret, fault, vpc, vu>>

\* the feed store, and the version layer
feedvars == <<header, frames, blobstore, feed, pc, pend, ret, fault>>

vuvars == <<vpc, vu>>

(* ------------------------------ bounds -------------------------------- *)

\* most packet frames a feed file holds in the model
MaxFrames == 3

(* -------------------------- program constants ------------------------- *)

FrameSize == 128
ReservedLen == 8
PayloadLen == 48
PtrLen == 20
BlobPayloadLen == 100
FidLen == 32

HeadLen == PayloadLen - PtrLen
WireLen == FrameSize - ReservedLen

\* anchor sequence numbers of the feed files the model starts from:
\* a full feed (0) and a feed whose history is truncated
Anchors == {0, 1}

\* byte lengths of the contents handed to append_blob: one that fits the
\* head packet and one that needs two blobs
BlobLens == {10, 130}

(* ------------------------------ bytes --------------------------------- *)

Zeros(n) == [i \in 1..n |-> 0]

Min(a, b) == IF a < b THEN a ELSE b

\* b[:n]
Take(b, n) == SubSeq(b, 1, Min(n, Len(b)))

\* b[n:]
Drop(b, n) == SubSeq(b, n + 1, Len(b))

\* content of n bytes, none of them zero
Fill(n) == [i \in 1..n |-> 1 + (i % 5)]

Fid == [i \in 1..FidLen |-> 7]

\* fid[:20]
FidMid == Take(Fid, PtrLen)

\* the anchor message ID in the header of a truncated feed
AnchorMid == [i \in 1..PtrLen |-> 9]

ZeroPtr == Zeros(PtrLen)

(* ------------------------- ssb_util (varint) -------------------------- *)

to_var_int(n) ==
    IF n <= 252 THEN <<n>> ELSE <<253, n % 256, n \div 256>>

\* (value, consumed bytes)
from_var_int(b) ==
    IF b[1] <= 252 THEN <<b[1], 1>> ELSE <<b[2] + 256 * b[3], 3>>

(* --------------------------- packet codec ----------------------------- *)

\* A 48-byte payload is its first 28 bytes and its last 20 bytes; the last
\* 20 bytes are either plain bytes or the signature of a blob.
MkPayload(b) ==
    LET p == Take(b, PayloadLen) \o Zeros(PayloadLen - Min(Len(b), PayloadLen))
    IN  [head |-> Take(p, HeadLen), tail |-> Drop(p, HeadLen)]

ZeroPayload == MkPayload(<<>>)

Kinds == {"plain48", "chain20", "ischild", "iscontn", "mkchild", "contdas"}

Dmx(seq, prev_mid) == <<seq, prev_mid>>

Sig(seq, prev_mid, typ, payload) == <<"sig", seq, typ, payload, prev_mid>>

Mid(seq, prev_mid, typ, payload) == <<seq, typ, payload, prev_mid>>

\* the packet object: pkt_type, payload, mid and the 120-byte wire
\* (dmx, type, payload, signature)
MkPacket(seq, prev_mid, typ, payload) ==
    [ok |-> TRUE, pkt_type |-> typ, payload |-> payload,
     mid |-> Mid(seq, prev_mid, typ, payload),
     wire |-> [dmx |-> Dmx(seq, prev_mid), typ |-> typ, payload |-> payload,
               sig |-> Sig(seq, prev_mid, typ, payload)]]

\* what a read past the end of the file gives the parser: no bytes
NoWire == [dmx |-> <<>>, typ |-> "none", payload |-> ZeroPayload, sig |-> <<>>]

\* Python's None where a packet is expected
NonePkt ==
    [ok |-> FALSE, pkt_type |-> "none", payload |-> ZeroPayload, mid |-> <<>>,
     wire |-> NoWire]

\* Packet(fid, seq, prev_mid, payload): a plain48 packet
Packet(seq, prev_mid, payload) == MkPacket(seq, prev_mid, "plain48", payload)

\* parses and verifies 120 bytes against (fid, seq, prev_mid)
pkt_from_bytes(seq, prev_mid, raw) ==
    IF /\ raw.dmx = Dmx(seq, prev_mid)
       /\ raw.sig = Sig(seq, prev_mid, raw.typ, raw.payload)
    THEN MkPacket(seq, prev_mid, raw.typ, raw.payload)
    ELSE NonePkt

\* Blob(payload, ptr).signature: the hash of the blob's 120 bytes
BlobSig(payload, ptr) == <<"blob", payload, ptr>>

Blob(payload, ptr) ==
    [ok |-> TRUE, payload |-> payload, ptr |-> ptr,
     signature |-> BlobSig(payload, ptr)]

NoneBlob == [ok |-> FALSE, payload |-> <<>>, ptr |-> ZeroPtr, signature |-> <<>>]

\* the blobs carrying `rest` (a multiple of 100 bytes), each pointing at
\* the next, the last one at twenty zero bytes
RECURSIVE MkBlobs(_)
MkBlobs(rest) ==
    IF rest = <<>> THEN <<>>
    ELSE LET after == MkBlobs(Drop(rest, BlobPayloadLen))
             ptr == IF after = <<>> THEN ZeroPtr ELSE after[1].signature
         IN  <<Blob(Take(rest, BlobPayloadLen), ptr)>> \o after

PadTo(b, n) == b \o Zeros((n - (Len(b) % n)) % n)

\* create_chain(fid, seq, prev_mid, content): the chain20 head packet and
\* the blobs of the content that does not fit its 28 bytes
create_chain(seq, prev_mid, content) ==
    LET c == to_var_int(Len(content)) \o content
        head == Take(c, HeadLen) \o Zeros(HeadLen - Min(Len(c), HeadLen))
        blobs == MkBlobs(PadTo(Drop(c, HeadLen), BlobPayloadLen))
        ptr == IF blobs = <<>> THEN ZeroPtr ELSE blobs[1].signature
    IN  [pkt |-> MkPacket(seq, prev_mid, "chain20", [head |-> head, tail |-> ptr]),
         blobs |-> blobs]

(* ------------------------------ the file ------------------------------ *)

\* the frame append_pkt writes: 8 reserved bytes and the packet's wire
Frame(pkt) == [res |-> Zeros(ReservedLen), wire |-> pkt.wire]

FrameLen(f) == Len(f.res) + WireLen

\* size of the .log file in bytes: the header and the frames after it
RECURSIVE FramesLen(_)
FramesLen(fs) == IF fs = <<>> THEN 0 ELSE FrameLen(fs[1]) + FramesLen(Tail(fs))

FileSize == FrameSize + FramesLen(frames)

\* f.seek(128 * rel); f.read(128)[8:]
ReadFrame(fs, rel) == IF rel <= Len(fs) THEN fs[rel].wire ELSE NoWire

(* ------------------------------- Feed --------------------------------- *)

NoFeed ==
    [open |-> FALSE, fid |-> Fid, anchor_seq |-> 0, front_seq |-> 0,
     front_mid |-> <<>>, mids |-> <<>>]

\* _get_mids: the message IDs of the frames anchor_seq+1 .. front_seq, each
\* parsed against the previous one; [ok, mids], ok FALSE when a packet is
\* None and pkt.mid raises
RECURSIVE get_mids_from(_, _, _, _, _)
get_mids_from(fs, anchor_seq, front_seq, i, mids) ==
    IF i > front_seq THEN [ok |-> TRUE, mids |-> mids]
    ELSE LET pkt == pkt_from_bytes(i, mids[Len(mids)], ReadFrame(fs, i - anchor_seq))
         IN  IF ~pkt.ok THEN [ok |-> FALSE, mids |-> mids]
             ELSE get_mids_from(fs, anchor_seq, front_seq, i + 1, Append(mids, pkt.mid))

\* _get_mids with a loop that stops one frame early
get_mids_skip_last(hdr, fs) ==
    get_mids_from(fs, hdr.anchor_seq, hdr.front_seq - 1, hdr.anchor_seq + 1,
                  <<Take(hdr.fid, PtrLen)>>)

get_mids(hdr, fs) ==
    get_mids_from(fs, hdr.anchor_seq, hdr.front_seq, hdr.anchor_seq + 1,
                  <<Take(hdr.fid, PtrLen)>>)

\* Feed.__init__: [ok, feed]
LoadFeed(hdr, fs) ==
    LET m == get_mids(hdr, fs)
    IN  IF m.ok
        THEN [ok |-> TRUE,
              feed |-> [open |-> TRUE, fid |-> hdr.fid, anchor_seq |-> hdr.anchor_seq,
                        front_seq |-> hdr.front_seq, front_mid |-> hdr.front_mid,
                        mids |-> m.mids]]
        ELSE [ok |-> FALSE, feed |-> NoFeed]

\* Feed.__len__
FeedLen(fd) == fd.front_seq

\* negative indices count from the front
Remap(fd, seq) == IF seq < 0 THEN fd.front_seq + seq + 1 ELSE seq

\* the bounds check with >= for >
InRange_excl_front(fd, s) == ~(s >= fd.front_seq \/ s <= fd.anchor_seq)

InRange(fd, s) == ~(s > fd.front_seq \/ s <= fd.anchor_seq)

\* Feed.__getitem__: [st, pkt, read]; read is the frame read, 0 when none
getitem(fd, fs, seq) ==
    LET s == Remap(fd, seq)
        rel == s - fd.anchor_seq
    IN  IF ~InRange(fd, s)
        THEN [st |-> "IndexError", pkt |-> NonePkt, read |-> 0]
        ELSE IF rel > Len(fd.mids)      \* self._mids[relative_seq - 1] raises
        THEN [st |-> "IndexError", pkt |-> NonePkt, read |-> rel]
        ELSE [st |-> "ok", pkt |-> pkt_from_bytes(s, fd.mids[rel], ReadFrame(fs, rel)),
              read |-> rel]

\* has_ended comparing the last packet's kind with the wrong kind
has_ended_wrong_kind(fd, fs) ==
    IF FeedLen(fd) < 1 THEN "False"
    ELSE LET last == getitem(fd, fs, -1)
         IN  IF last.st # "ok" THEN last.st
             ELSE IF ~last.pkt.ok THEN "AttributeError"
             ELSE IF last.pkt.pkt_type = "iscontn" THEN "True" ELSE "False"

\* Feed.has_ended: "True", "False", or the exception it raises
has_ended(fd, fs) ==
    IF FeedLen(fd) < 1 THEN "False"
    ELSE LET last == getitem(fd, fs, -1)
         IN  IF last.st # "ok" THEN last.st
             ELSE IF ~last.pkt.ok THEN "AttributeError"
             ELSE IF last.pkt.pkt_type = "contdas" THEN "True" ELSE "False"

(* ----------------------------- blob store ----------------------------- *)

\* the blob file _write_blob writes: named by the signature, holding the wire
BlobFile(blob) == [name |-> blob.signature, payload |-> blob.payload, ptr |-> blob.ptr]

\* _write_blob stopped by an I/O error after k files: the files of blobs[1..k]
write_blob(store, blobs, k) == store \cup {BlobFile(blobs[i]) : i \in 1..k}

\* _get_blob: the Blob of the file the pointer names, None when there is none
get_blob(store, ptr) ==
    IF \E f \in store : f.name = ptr
    THEN LET f == CHOOSE f \in store : f.name = ptr IN Blob(f.payload, f.ptr)
    ELSE NoneBlob

\* the loop of get_blob_chain: [st, blobs]; blob.ptr raises when the blob
\* is None
RECURSIVE walk_chain(_, _, _)
walk_chain(store, ptr, blobs) ==
    IF ptr = ZeroPtr THEN [st |-> "ok", blobs |-> blobs]
    ELSE LET blob == get_blob(store, ptr)
         IN  IF ~blob.ok THEN [st |-> "AttributeError", blobs |-> blobs]
             ELSE walk_chain(store, blob.ptr, Append(blobs, blob))

\* the loop of _verify_chain: [ok, content]
RECURSIVE verify_blobs(_, _, _)
verify_blobs(blobs, ptr, content) ==
    IF blobs = <<>> THEN [ok |-> TRUE, content |-> content]
    ELSE IF ptr # blobs[1].signature THEN [ok |-> FALSE, content |-> content]
    ELSE verify_blobs(Tail(blobs), blobs[1].ptr, content \o blobs[1].payload)

\* _verify_chain returning the content without cutting it to size
verify_chain_uncut(head, blobs) ==
    LET v == from_var_int(head.payload.head)
        r == verify_blobs(blobs, head.payload.tail, Drop(head.payload.head, v[2]))
    IN  IF r.ok THEN [st |-> "ok", val |-> <<r.content>>]
        ELSE [st |-> "None", val |-> <<>>]

\* _verify_chain: [st, val]; val is <<content[:size]>> or <<>> for None
verify_chain(head, blobs) ==
    LET v == from_var_int(head.payload.head)
        r == verify_blobs(blobs, head.payload.tail, Drop(head.payload.head, v[2]))
    IN  IF r.ok THEN [st |-> "ok", val |-> <<Take(r.content, v[1])>>]
        ELSE [st |-> "None", val |-> <<>>]

\* get_blob_chain
get_blob_chain(store, pkt) ==
    LET w == walk_chain(store, pkt.payload.tail, <<>>)
    IN  IF w.st # "ok" THEN [st |-> w.st, val |-> <<>>]
        ELSE verify_chain(pkt, w.blobs)

\* Feed.get_bytes: [st, val, read]
get_bytes(fd, fs, store, i) ==
    LET g == getitem(fd, fs, i)
    IN  IF g.st # "ok" THEN [st |-> g.st, val |-> <<>>, read |-> g.read]
        ELSE IF ~g.pkt.ok THEN [st |-> "None", val |-> <<>>, read |-> g.read]
        ELSE IF g.pkt.pkt_type = "chain20"
             THEN LET c == get_blob_chain(store, g.pkt)
                  IN  [st |-> c.st, val |-> c.val, read |-> g.read]
        ELSE IF g.pkt.pkt_type \in Kinds
             THEN [st |-> "ok", val |-> <<g.pkt.payload>>, read |-> g.read]
        ELSE [st |-> "None", val |-> <<>>, read |-> g.read]

\* the loop of get_bytes_quick: [st, content]
RECURSIVE quick_chain(_, _, _)
quick_chain(store, ptr, content) ==
    IF ptr = ZeroPtr THEN [st |-> "ok", content |-> content]
    ELSE LET blob == get_blob(store, ptr)
         IN  IF ~blob.ok THEN [st |-> "AttributeError", content |-> content]
             ELSE quick_chain(store, blob.ptr, content \o blob.payload)

\* get_bytes_quick with the size prefix left in the content
get_bytes_quick_keep_prefix(fd, fs, store, i) ==
    LET s == Remap(fd, i)
        rel == s - fd.anchor_seq
        raw == ReadFrame(fs, rel)
    IN  IF ~InRange(fd, s) THEN [st |-> "IndexError", val |-> <<>>, read |-> 0]
        ELSE IF raw.typ # "chain20"
             THEN [st |-> "ok", val |-> <<raw.payload>>, read |-> rel]
        ELSE LET v == from_var_int(raw.payload.head)
                 c == quick_chain(store, raw.payload.tail, raw.payload.head)
             IN  IF c.st # "ok" THEN [st |-> c.st, val |-> <<>>, read |-> rel]
                 ELSE [st |-> "ok", val |-> <<Take(c.content, v[1])>>, read |-> rel]

\* Feed.get_bytes_quick: [st, val, read]
get_bytes_quick(fd, fs, store, i) ==
    LET s == Remap(fd, i)
        rel == s - fd.anchor_seq
        raw == ReadFrame(fs, rel)
    IN  IF ~InRange(fd, s) THEN [st |-> "IndexError", val |-> <<>>, read |-> 0]
        ELSE IF raw.typ # "chain20"
             THEN [st |-> "ok", val |-> <<raw.payload>>, read |-> rel]
        ELSE LET v == from_var_int(raw.payload.head)
                 c == quick_chain(store, raw.payload.tail, Drop(raw.payload.head, v[2]))
             IN  IF c.st # "ok" THEN [st |-> c.st, val |-> <<>>, read |-> rel]
                 ELSE [st |-> "ok", val |-> <<Take(c.content, v[1])>>, read |-> rel]

\* the 48 bytes of a payload
PayloadBytes(p) == p.head \o p.tail

\* Feed.get_contn: [st, val]; self[-1] may raise, and a None packet has no
\* pkt_type
get_contn(fd, fs) ==
    LET last == getitem(fd, fs, -1)
    IN  IF last.st # "ok" THEN [st |-> last.st, val |-> <<>>]
        ELSE IF ~last.pkt.ok THEN [st |-> "AttributeError", val |-> <<>>]
        ELSE IF last.pkt.pkt_type # "contdas" THEN [st |-> "None", val |-> <<>>]
        ELSE [st |-> "ok", val |-> <<Take(PayloadBytes(last.pkt.payload), FidLen)>>]

(* ------------------------------ append -------------------------------- *)

\* the header's reserved bytes, and where its front fields begin
HdrReservedLen == 12
FrontAt == 104

\* _update_header writing at the anchor fields, 24 bytes too early
update_header_at_anchor(hdr, fd) ==
    [hdr EXCEPT !.anchor_seq = fd.front_seq, !.anchor_mid = fd.front_mid]

\* _update_header writing the sequence number and not the message ID
update_header_seq_only(hdr, fd) == [hdr EXCEPT !.front_seq = fd.front_seq]

\* _update_header: bytes [104..128) of the file become the handle's front
\* sequence number and message ID; the rest of the file is written back
update_header(hdr, fd) ==
    [hdr EXCEPT !.front_seq = fd.front_seq, !.front_mid = fd.front_mid]

\* append_pkt after the frame is written: the handle's new front
advance_front(fd, pkt) ==
    [fd EXCEPT !.front_seq = fd.front_seq + 1, !.front_mid = pkt.mid]

\* the cache given the previous front's message ID again
append_mid_stale(fd, pkt) == [fd EXCEPT !.mids = Append(fd.mids, fd.mids[Len(fd.mids)])]

\* self._mids.append(pkt.mid)
append_mid(fd, pkt) == [fd EXCEPT !.mids = Append(fd.mids, pkt.mid)]

\* the write of the frame lost
write_frame_lost(fs, pkt) == fs

\* f.seek(0, 2); f.write(payload)
write_frame(fs, pkt) == Append(fs, Frame(pkt))

\* what append_blob returns, given what append_pkt and _write_blob returned
append_blob_result(pkt_ret, blob_ret) == blob_ret

\* the call of append_pkt, append_bytes or append_blob that is under way:
\* its packet and blobs, what its append_pkt returned, and the file size
\* and front sequence number it started from
NoPend ==
    [op |-> "none", pkt |-> NonePkt, blobs |-> <<>>, pkt_ret |-> FALSE,
     size0 |-> 0, front0 |-> 0]

Pending(op, pkt, blobs) ==
    [op |-> op, pkt |-> pkt, blobs |-> blobs, pkt_ret |-> FALSE,
     size0 |-> FileSize, front0 |-> feed.front_seq]

NoRet == [op |-> "none", st |-> "none", val |-> <<>>, arg |-> 0, read |-> 0]

Result(op, st) == [op |-> op, st |-> st, val |-> <<>>, arg |-> 0, read |-> 0]

BoolSt(b) == IF b THEN "True" ELSE "False"

\* append_pkt up to and including the write of the frame.  has_ended may
\* raise; a finished feed or a None packet makes append_pkt return False,
\* after which append_blob still goes on to _write_blob.
append_pkt_begin(op, pkt, blobs) ==
    /\ UNCHANGED vuvars
    /\ pc = "idle"
    /\ feed.open
    /\ LET he == has_ended(feed, frames)
       IN  IF he \notin {"True", "False"}
           THEN /\ ret' = Result(op, he)
                /\ UNCHANGED <<header, frames, blobstore, feed, pc, pend, fault>>
           ELSE IF he = "True" \/ ~pkt.ok
           THEN IF op = "append_blob"
                THEN /\ pc' = "blobs"
                     /\ pend' = Pending(op, pkt, blobs)
                     /\ UNCHANGED <<header, frames, blobstore, feed, ret, fault>>
                ELSE /\ ret' = Result(op, "False")
                     /\ UNCHANGED <<header, frames, blobstore, feed, pc, pend, fault>>
           ELSE /\ Len(frames) < MaxFrames
                /\ frames' = write_frame(frames, pkt)
                /\ pc' = "written"
                /\ pend' = Pending(op, pkt, blobs)
                /\ UNCHANGED <<header, blobstore, feed, ret, fault>>

\* the payloads handed to append_bytes
PlainPayloads == {MkPayload(Fill(PayloadLen))}

\* the feed ID a contdas packet names, in the first 32 bytes
LinkPayload == MkPayload([i \in 1..FidLen |-> 3])

\* the packets handed to append_pkt: None, or a packet the codec built for
\* the next sequence number of the feed
AppendPackets(fd) ==
    {NonePkt} \cup
    {MkPacket(fd.front_seq + 1, fd.front_mid, "contdas", LinkPayload)}

\* Feed.append_pkt, called by the user
AppendPkt ==
    \E p \in AppendPackets(feed) : append_pkt_begin("append_pkt", p, <<>>)

\* the size a chain20 head of another producer announces, and the content
\* bytes it carries: fewer than announced, and no blob
ForeignSize == 40

ForeignHead ==
    [head |-> to_var_int(ForeignSize) \o Fill(HeadLen - 1), tail |-> ZeroPtr]

\* the packets of every kind the codec builds for the next sequence number
KindPackets(fd) ==
    {MkPacket(fd.front_seq + 1, fd.front_mid, k, LinkPayload) :
        k \in Kinds \ {"chain20"}} \cup
    {MkPacket(fd.front_seq + 1, fd.front_mid, "chain20", ForeignHead)}

\* Feed.append_pkt, called with a packet of any kind
AppendPktAny ==
    \E p \in KindPackets(feed) : append_pkt_begin("append_pkt", p, <<>>)

\* Feed.append_bytes
AppendBytes ==
    \E x \in PlainPayloads :
        append_pkt_begin("append_bytes", Packet(feed.front_seq + 1, feed.front_mid, x), <<>>)

\* Feed.append_blob
AppendBlob ==
    \E n \in BlobLens :
        LET c == create_chain(feed.front_seq + 1, feed.front_mid, Fill(n))
        IN  append_pkt_begin("append_blob", c.pkt, c.blobs)

\* append_pkt after the write of the frame: the front moves, the header is
\* rewritten, the message ID is cached, True is returned
AppendPktFinish ==
    /\ UNCHANGED vuvars
    /\ pc = "written"
    /\ LET moved == advance_front(feed, pend.pkt)
       IN  /\ header' = update_header(header, moved)
           /\ feed' = append_mid(moved, pend.pkt)
    /\ IF pend.op = "append_blob"
       THEN /\ pc' = "blobs"
            /\ pend' = [pend EXCEPT !.pkt_ret = TRUE]
            /\ UNCHANGED ret
       ELSE /\ pc' = "idle"
            /\ pend' = NoPend
            /\ ret' = Result(pend.op, "True")
    /\ UNCHANGED <<frames, blobstore, fault>>

\* the end of append_blob: _write_blob writes the blob files, or the first
\* k of them when a write fails, and its result is returned
WriteBlobs ==
    /\ UNCHANGED vuvars
    /\ pc = "blobs"
    /\ \E k \in 0..Len(pend.blobs) :
          /\ blobstore' = write_blob(blobstore, pend.blobs, k)
          /\ ret' = [Result("append_blob",
                            BoolSt(append_blob_result(pend.pkt_ret, k = Len(pend.blobs))))
                     EXCEPT !.val = <<pend.pkt_ret>>, !.arg = k]
    /\ pc' = "idle"
    /\ pend' = NoPend
    /\ UNCHANGED <<header, frames, feed, fault>>

(* ------------------------------- reads -------------------------------- *)

\* Feed(file_name)
Open ==
    /\ UNCHANGED vuvars
    /\ pc = "idle"
    /\ LET r == LoadFeed(header, frames)
       IN  /\ feed' = r.feed
           /\ ret' = Result("open", IF r.ok THEN "ok" ELSE "AttributeError")
    /\ UNCHANGED <<header, frames, blobstore, pc, pend, fault>>

SeqArgs == (0 - (MaxFrames + 1))..(MaxFrames + 1)

\* Feed.get / Feed.__getitem__
Get ==
    /\ UNCHANGED vuvars
    /\ pc = "idle"
    /\ feed.open
    /\ \E i \in SeqArgs :
          LET g == getitem(feed, frames, i)
          IN  ret' = [op |-> "get", st |-> IF g.st = "ok" /\ ~g.pkt.ok THEN "None" ELSE g.st,
                      val |-> IF g.st = "ok" /\ g.pkt.ok THEN <<g.pkt>> ELSE <<>>,
                      arg |-> i, read |-> g.read]
    /\ UNCHANGED <<header, frames, blobstore, feed, pc, pend, fault>>

\* Feed.get_bytes, called with an index of the set A
GetBytesAt(A) ==
    /\ UNCHANGED vuvars
    /\ pc = "idle"
    /\ feed.open
    /\ \E i \in A :
          LET g == get_bytes(feed, frames, blobstore, i)
          IN  ret' = [op |-> "get_bytes", st |-> g.st, val |-> g.val, arg |-> i,
                      read |-> g.read]
    /\ UNCHANGED <<header, frames, blobstore, feed, pc, pend, fault>>

GetBytes == GetBytesAt(SeqArgs)

\* Feed.get_bytes_quick, called with an index of the set A
GetBytesQuickAt(A) ==
    /\ UNCHANGED vuvars
    /\ pc = "idle"
    /\ feed.open
    /\ \E i \in A :
          LET g == get_bytes_quick(feed, frames, blobstore, i)
          IN  ret' = [op |-> "get_bytes_quick", st |-> g.st, val |-> g.val, arg |-> i,
                      read |-> g.read]
    /\ UNCHANGED <<header, frames, blobstore, feed, pc, pend, fault>>

GetBytesQuick == GetBytesQuickAt(SeqArgs)

\* the indices of the first and of the last packet
EndArgs == {1, -1}

GetBytesEnds == GetBytesAt(EndArgs)

GetBytesQuickEnds == GetBytesQuickAt(EndArgs)

\* Feed.get_contn
GetContn ==
    /\ UNCHANGED vuvars
    /\ pc = "idle"
    /\ feed.open
    /\ LET g == get_contn(feed, frames)
       IN  ret' = [op |-> "get_contn", st |-> g.st, val |-> g.val, arg |-> -1,
                   read |-> 0]
    /\ UNCHANGED <<header, frames, blobstore, feed, pc, pend, fault>>

(* --------------------------- specification ---------------------------- *)

\* a feed file that holds no packet yet: the front is the anchor
EmptyHeader(a) ==
    [reserved |-> Zeros(HdrReservedLen), fid |-> Fid,
     parent_id |-> [i \in 1..FidLen |-> 5], parent_seq |-> 2,
     anchor_seq |-> a, anchor_mid |-> IF a = 0 THEN FidMid ELSE AnchorMid,
     front_seq |-> a, front_mid |-> IF a = 0 THEN FidMid ELSE AnchorMid]

\* the version layer at rest
NoVu == [op |-> "none"]

Init ==
    /\ \E a \in Anchors : header = EmptyHeader(a)
    /\ frames = <<>>
    /\ blobstore = {}
    /\ feed = NoFeed
    /\ pc = "idle"
    /\ pend = NoPend
    /\ ret = NoRet
    /\ fault = "none"
    /\ vpc = "none"
    /\ vu = NoVu

Next ==
    \/ Open
    \/ AppendPkt
    \/ AppendBytes
    \/ AppendBlob
    \/ AppendPktFinish
    \/ WriteBlobs
    \/ Get
    \/ GetBytes
    \/ GetBytesQuick

Spec == Init /\ [][Next]_vars

\* feeds holding packets of every kind, and the reads of payloads
NextKinds ==
    \/ Open
    \/ AppendPktAny
    \/ AppendBlob
    \/ AppendPktFinish
    \/ WriteBlobs
    \/ GetBytesEnds
    \/ GetBytesQuickEnds
    \/ GetContn

SpecKinds == Init /\ [][NextKinds]_vars

(* ------------------------------- faults ------------------------------- *)

\* The process stops inside an append: the frame is written and the header
\* is not yet rewritten, or the blobs are not yet written.  The handle is
\* lost; the file stays as it is.
Crash ==
    /\ UNCHANGED vuvars
    /\ pc \in {"written", "blobs"}
    /\ fault = "none"
    /\ fault' = "crash"
    /\ feed' = NoFeed
    /\ pc' = "idle"
    /\ pend' = NoPend
    /\ ret' = Result("crash", pc)
    /\ UNCHANGED <<header, frames, blobstore>>

\* the parts of a 128-byte frame a changed byte can lie in
FrameParts == {"res", "dmx", "typ", "head", "tail", "sig"}

\* a byte string with its first byte changed
FlipByte(b) == [b EXCEPT ![1] = (b[1] + 1) % 256]

\* the frame with one byte of the given part changed; a changed dmx or
\* signature is no value the codec computes, a changed blob pointer names
\* no blob
TamperFrame(f, part) ==
    CASE part = "res" -> [f EXCEPT !.res = FlipByte(f.res)]
      [] part = "dmx" -> [f EXCEPT !.wire.dmx = <<>>]
      [] part = "typ" ->
           [f EXCEPT !.wire.typ = IF f.wire.typ = "plain48" THEN "chain20" ELSE "plain48"]
      [] part = "head" -> [f EXCEPT !.wire.payload.head = FlipByte(f.wire.payload.head)]
      [] part = "tail" ->
           [f EXCEPT !.wire.payload.tail =
                IF Len(f.wire.payload.tail) = PtrLen
                THEN FlipByte(f.wire.payload.tail) ELSE <<>>]
      [] part = "sig" -> [f EXCEPT !.wire.sig = <<>>]

\* One byte of one packet frame of a closed, consistent feed file is changed.
Tamper ==
    /\ UNCHANGED vuvars
    /\ pc = "idle"
    /\ fault = "none"
    /\ \E k \in 1..Len(frames), part \in FrameParts :
          /\ frames' = [frames EXCEPT ![k] = TamperFrame(frames[k], part)]
          /\ fault' = IF part = "res" THEN "tamper_res" ELSE "tamper_wire"
          /\ ret' = [Result("tamper", part) EXCEPT !.arg = k]
    /\ feed' = NoFeed
    /\ UNCHANGED <<header, blobstore, pc, pend>>

\* appends and reopening, with one fault; the reads change neither the
\* file nor the handle and are left out
NextFault ==
    \/ Open
    \/ AppendPkt
    \/ AppendBytes
    \/ AppendBlob
    \/ AppendPktFinish
    \/ WriteBlobs
    \/ Crash
    \/ Tamper

SpecFault == Init /\ [][NextFault]_vars

(* ------------------------------ properties ---------------------------- *)

\* packets the header counts
HdrCount == header.front_seq - header.anchor_seq

\* the last frame of the file is the feed's front packet and a contdas
EndedFile ==
    /\ Len(frames) >= 1
    /\ Len(frames) = HdrCount
    /\ frames[Len(frames)].wire.typ = "contdas"

\* A call of append_pkt, append_bytes or append_blob returns in this step.
\* (Between calls ret is the result of the last call, and every step that is
\* not a stuttering step sets it or leaves the idle state.)
AppendReturns ==
    /\ pc' = "idle"
    /\ ret'.op \in {"append_pkt", "append_bytes", "append_blob"}

\* C1: between calls the file size is 128 * (front_seq - anchor_seq + 1),
\* for the header's and for the handle's front_seq, and every call of
\* append_pkt, append_bytes or append_blob that returns True has added
\* exactly one 128-byte frame and raised front_seq by exactly 1.
C1_SizeAndOneFramePerAppend ==
    /\ [](pc = "idle" =>
            /\ FileSize = FrameSize * (header.front_seq - header.anchor_seq + 1)
            /\ feed.open => FileSize = FrameSize * (feed.front_seq - feed.anchor_seq + 1))
    /\ [][(AppendReturns /\ ret'.st = "True") =>
            /\ FileSize' = pend.size0 + FrameSize
            /\ feed'.front_seq = pend.front0 + 1]_vars

\* C2: once the feed's last packet is a contdas, has_ended is True in every
\* later state, and every call of append_pkt and append_bytes returns False
\* and leaves the file, front_seq, front_mid and mids as they were.
C2_EndedFeedRefusesAppend ==
    [][(feed.open /\ EndedFile) =>
          /\ feed'.open
          /\ EndedFile'
          /\ has_ended(feed', frames') = "True"
          /\ (AppendReturns /\ ret'.op \in {"append_pkt", "append_bytes"}) =>
                /\ ret'.st = "False"
                /\ UNCHANGED <<header, frames, feed>>]_vars

C2_Witness ==
    /\ pc = "idle"
    /\ EndedFile
    /\ ret.op = "append_bytes"
    /\ ret.st = "False"
    /\ has_ended(feed, frames) = "True"

\* every blob of the call under way has its file in the store
AllBlobsWritten(store, blobs) ==
    \A i \in 1..Len(blobs) : BlobFile(blobs[i]) \in store

\* C3: append_blob returns True exactly when the head packet was appended
\* and every blob was written; when the feed has ended (append_pkt returned
\* False) it returns False and writes no blob file.
C3_AppendBlobCombinedSuccess ==
    [][(pc = "blobs" /\ pc' = "idle" /\ ret'.op = "append_blob") =>
          /\ ret'.st = "True" <=> (pend.pkt_ret /\ AllBlobsWritten(blobstore', pend.blobs))
          /\ ~pend.pkt_ret => (ret'.st = "False" /\ blobstore' = blobstore)]_vars

\* C4: Get(seq) of every stored sequence number returns a packet whose
\* message ID is mids[seq - anchor_seq], and right after append_pkt has
\* appended a packet, Get(front_seq) returns a packet with that packet's
\* message ID.
C4_GetMidIsCachedMid ==
    /\ [](feed.open =>
            /\ Len(feed.mids) = feed.front_seq - feed.anchor_seq + 1
            /\ \A s \in (feed.anchor_seq + 1)..feed.front_seq :
                  LET g == getitem(feed, frames, s)
                  IN  /\ g.st = "ok"
                      /\ g.pkt.ok
                      /\ g.pkt.mid = feed.mids[s - feed.anchor_seq + 1])
    /\ [][(pc = "written" /\ pc' # "written") =>
            LET g == getitem(feed', frames', feed'.front_seq)
            IN  /\ g.st = "ok"
                /\ g.pkt.ok
                /\ g.pkt.mid = pend.pkt.mid]_vars

C4_Witness ==
    /\ pc = "idle"
    /\ feed.open
    /\ feed.front_seq >= 2
    /\ ret.op = "get"
    /\ ret.st = "ok"
    /\ ret.arg = feed.front_seq
    /\ ret.val[1].mid = feed.mids[feed.front_seq - feed.anchor_seq + 1]

\* C5: Get and GetBytesQuick remap a negative seq to front_seq + seq + 1 and
\* raise IndexError, reading no frame, exactly when the remapped seq is not
\* in (anchor_seq, front_seq]; inside the bounds they read the frame
\* seq - anchor_seq, and Get returns its packet.
C5_GetBounds ==
    (pc = "idle" /\ ret.op \in {"get", "get_bytes_quick"}) =>
        LET s == IF ret.arg < 0 THEN feed.front_seq + ret.arg + 1 ELSE ret.arg
            inb == feed.anchor_seq < s /\ s <= feed.front_seq
        IN  /\ ret.st = "IndexError" <=> ~inb
            /\ ~inb => ret.read = 0
            /\ inb => ret.read = s - feed.anchor_seq
            /\ (inb /\ ret.op = "get") => ret.st = "ok"

C5_Witness ==
    /\ pc = "idle"
    /\ feed.open
    /\ feed.front_seq >= 2
    /\ ret.op = "get_bytes_quick"
    /\ ret.arg = 0 - feed.front_seq
    /\ ret.st = "ok"
    /\ ret.read = 1

C7_OpenRefusesSizeMismatch ==
    (pc = "idle" /\ ret.op = "open" /\ FileSize # FrameSize * (HdrCount + 1)) =>
        (ret.st # "ok" /\ ~feed.open)

\* C8 as stated: after any byte of a packet frame is changed, the reserved
\* bytes included, opening the file fails.
C8_AnyFrameByte ==
    (pc = "idle" /\ fault \in {"tamper_res", "tamper_wire"} /\ ret.op = "open") =>
        (ret.st # "ok" /\ ~feed.open)

\* C8: after a byte of the 120 packet bytes [8..128) of a packet frame is
\* changed, opening the file fails; a change of the 8 reserved bytes is not
\* noticed.
C8_PacketByte ==
    /\ (pc = "idle" /\ fault = "tamper_wire" /\ ret.op = "open") =>
          (ret.st # "ok" /\ ~feed.open)
    /\ (pc = "idle" /\ fault = "tamper_res" /\ ret.op = "open") =>
          (ret.st = "ok" /\ feed.open)

C8_Witness ==
    /\ pc = "idle"
    /\ fault = "tamper_wire"
    /\ ret.op = "open"
    /\ ret.st = "AttributeError"
    /\ Len(frames) >= 2

\* C9: between calls, opening the file again gives a handle with the fid,
\* anchor_seq, front_seq, front_mid and mids of the handle that made the
\* appends.
C9_ReopenIsFaithful ==
    (pc = "idle" /\ feed.open) => LoadFeed(header, frames) = [ok |-> TRUE, feed |-> feed]

C9_Witness ==
    /\ pc = "idle"
    /\ ret.op = "open"
    /\ ret.st = "ok"
    /\ feed.front_seq >= 2
    /\ \E k \in 1..Len(frames) : frames[k].wire.typ = "chain20"
    /\ \E k \in 1..Len(frames) : frames[k].wire.typ = "plain48"

\* every blob from the pointer on is in the store under its own signature
RECURSIVE ChainIntact(_, _)
ChainIntact(store, ptr) ==
    \/ ptr = ZeroPtr
    \/ \E f \in store :
          /\ f.name = ptr
          /\ BlobSig(f.payload, f.ptr) = ptr
          /\ ChainIntact(store, f.ptr)

\* C10: GetBytes of a chain20 packet returns None when a blob of its chain
\* is missing or has a signature other than the pointer to it, and returns
\* bytes only when every blob matched.
C10_NoPartialChain ==
    (/\ pc = "idle"
     /\ ret.op = "get_bytes"
     /\ ret.read >= 1
     /\ frames[ret.read].wire.typ = "chain20") =>
        LET intact == ChainIntact(blobstore, frames[ret.read].wire.payload.tail)
        IN  /\ ~intact => ret.st = "None"
            /\ ret.st = "ok" => intact

\* the blobs of the chain20 packet of every stored frame are in the store
BlobsIntact(fs, store) ==
    \A k \in 1..Len(fs) :
        fs[k].wire.typ = "chain20" => ChainIntact(store, fs[k].wire.payload.tail)

\* C11: on a feed whose frames and blobs are intact, get_bytes and
\* get_bytes_quick return the same bytes for every stored sequence number,
\* whatever the kind of the packet, and for the negative index of the same
\* packet.
C11_GetBytesEqualsQuick ==
    (pc = "idle" /\ feed.open /\ BlobsIntact(frames, blobstore)) =>
        \A s \in (feed.anchor_seq + 1)..feed.front_seq :
            \A i \in {s, s - feed.front_seq - 1} :
                LET a == get_bytes(feed, frames, blobstore, i)
                    b == get_bytes_quick(feed, frames, blobstore, i)
                IN  /\ a.st = "ok"
                    /\ b.st = "ok"
                    /\ a.val = b.val

C11_Witness ==
    /\ pc = "idle"
    /\ BlobsIntact(frames, blobstore)
    /\ ret.op = "get_bytes"
    /\ ret.st = "ok"
    /\ ret.read = 2
    /\ frames[2].wire.typ = "chain20"
    /\ frames[2].wire.payload.tail # ZeroPtr
    /\ frames[1].wire.typ = "mkchild"
    /\ Len(ret.val[1]) = 130
    /\ ret.val = get_bytes_quick(feed, frames, blobstore, ret.arg).val

\* the payloads of the stored blobs from the pointer on, in pointer order
RECURSIVE ChainPayloads(_, _)
ChainPayloads(store, ptr) ==
    IF ptr = ZeroPtr THEN <<>>
    ELSE LET f == CHOOSE f \in store : f.name = ptr
         IN  f.payload \o ChainPayloads(store, f.ptr)

\* the stored chain20 packets whose chain verifies
VerifiedHeads ==
    {p \in {getitem(feed, frames, s).pkt :
                s \in (feed.anchor_seq + 1)..feed.front_seq} :
        /\ p.ok
        /\ p.pkt_type = "chain20"
        /\ ChainIntact(blobstore, p.payload.tail)}

\* the size a head announces, and the bytes its payload and blobs carry
HeadSize(p) == from_var_int(p.payload.head)[1]

HeadContent(p) ==
    Drop(p.payload.head, from_var_int(p.payload.head)[2]) \o
    ChainPayloads(blobstore, p.payload.tail)

\* C12 as stated: get_blob_chain of a chain20 head whose chain verifies
\* returns exactly as many bytes as the head's size prefix says.
C12_ExactlySize ==
    (pc = "idle" /\ feed.open) =>
        \A p \in VerifiedHeads :
            LET c == get_blob_chain(blobstore, p)
            IN  /\ c.st = "ok"
                /\ c.val[1] = Take(HeadContent(p), HeadSize(p))
                /\ Len(c.val[1]) = HeadSize(p)

\* C12: get_blob_chain of a chain20 head whose chain verifies returns the
\* head bytes payload[vlen..28) followed by the blobs' payloads in pointer
\* order, cut to the size of the prefix: exactly size bytes when the head
\* and its blobs carry that many, and all they carry when they carry fewer.
C12_CutToSize ==
    (pc = "idle" /\ feed.open) =>
        \A p \in VerifiedHeads :
            LET c == get_blob_chain(blobstore, p)
            IN  /\ c.st = "ok"
                /\ c.val[1] = Take(HeadContent(p), HeadSize(p))
                /\ Len(HeadContent(p)) >= HeadSize(p) => Len(c.val[1]) = HeadSize(p)
                /\ Len(HeadContent(p)) < HeadSize(p) => c.val[1] = HeadContent(p)

C12_Witness ==
    /\ pc = "idle"
    /\ ret.op = "get_bytes"
    /\ ret.st = "ok"
    /\ ret.read = 2
    /\ frames[2].wire.typ = "chain20"
    /\ frames[2].wire.payload.tail # ZeroPtr
    /\ ChainIntact(blobstore, frames[2].wire.payload.tail)
    /\ Len(ret.val[1]) = 130
    /\ frames[1].wire.payload = ForeignHead
    /\ Len(get_bytes(feed, frames, blobstore, 1).val[1]) = HeadLen - 1

(* ======================= the version layer ============================ *)
(* src/update_poc/poc/version_util.py.  A str is the sequence of its code  *)
(* points, bytes are a sequence of numbers 0..255.                         *)

\* longest text handed to get_changes, in characters
MaxText == 5

\* "\n" and "a"
NL == 10

LetterA == 97

Chars == {NL, LetterA}

Texts == UNION {[1..n -> Chars] : n \in 0..MaxText}

\* the feed store while a function of the version layer runs
FeedAtRest ==
    /\ header = EmptyHeader(0)
    /\ frames = <<>>
    /\ blobstore = {}
    /\ feed = NoFeed
    /\ pc = "idle"
    /\ pend = NoPend
    /\ ret = NoRet
    /\ fault = "none"

\* str.split("\n"): the lines of a text, at least one
RECURSIVE split_lines(_, _, _)
split_lines(text, line, lines) ==
    IF text = <<>> THEN Append(lines, line)
    ELSE IF Head(text) = NL THEN split_lines(Tail(text), <<>>, Append(lines, line))
    ELSE split_lines(Tail(text), Append(line, Head(text)), lines)

split(text) == split_lines(text, <<>>, <<>>)

\* "\n".join(lines)
RECURSIVE join(_)
join(lines) ==
    IF lines = <<>> THEN <<>>
    ELSE IF Len(lines) = 1 THEN lines[1]
    ELSE lines[1] \o <<NL>> \o join(Tail(lines))

\* x in lst
In(x, lst) == \E k \in 1..Len(lst) : lst[k] = x

\* the locals of get_changes before its first loop
get_changes_begin(old_version, new_version) ==
    [old_lines |-> split(old_version), new_lines |-> split(new_version),
     line_num |-> 1, changes |-> <<>>]

\* one pass of the first loop, with a line_num that an insert leaves as it is
get_changes_step_no_advance(d) ==
    LET old_l == Head(d.old_lines)
        new_l == Head(d.new_lines)
        olds == Tail(d.old_lines)
        news == Tail(d.new_lines)
    IN  IF old_l = new_l
        THEN [d EXCEPT !.old_lines = olds, !.new_lines = news, !.line_num = @ + 1]
        ELSE IF ~In(old_l, news)
        THEN [d EXCEPT !.old_lines = olds,
                       !.changes = Append(@, <<d.line_num, "D", old_l>>)]
        ELSE [d EXCEPT !.new_lines = news,
                       !.changes = Append(@, <<d.line_num, "I", new_l>>)]

\* one pass of the first loop of get_changes: both lists hold a line
get_changes_step(d) ==
    LET old_l == Head(d.old_lines)
        new_l == Head(d.new_lines)
        olds == Tail(d.old_lines)
        news == Tail(d.new_lines)
    IN  IF old_l = new_l
        THEN [d EXCEPT !.old_lines = olds, !.new_lines = news, !.line_num = @ + 1]
        ELSE IF ~In(old_l, news)
        THEN \* the new line is put back
             [d EXCEPT !.old_lines = olds,
                       !.changes = Append(@, <<d.line_num, "D", old_l>>)]
        ELSE \* the old line is put back
             [d EXCEPT !.new_lines = news,
                       !.changes = Append(@, <<d.line_num, "I", new_l>>),
                       !.line_num = @ + 1]

\* the two loops after the first: the old lines left are deleted, the new
\* lines left are inserted
get_changes_end(d) ==
    LET dels == [k \in 1..Len(d.old_lines) |-> <<d.line_num, "D", d.old_lines[k]>>]
        inss == [k \in 1..Len(d.new_lines) |->
                    <<d.line_num + k - 1, "I", d.new_lines[k]>>]
    IN  [d EXCEPT !.changes = @ \o dels \o inss,
                  !.line_num = @ + Len(d.new_lines)]

RECURSIVE get_changes_run(_)
get_changes_run(d) ==
    IF Len(d.old_lines) > 0 /\ Len(d.new_lines) > 0
    THEN get_changes_run(get_changes_step(d))
    ELSE get_changes_end(d)

get_changes(old_version, new_version) ==
    get_changes_run(get_changes_begin(old_version, new_version)).changes

\* list.insert(i, x): an index past the end appends
insert_at(lines, i, x) ==
    LET k == Min(i, Len(lines)) IN Take(lines, k) \o <<x>> \o Drop(lines, k)

\* del lst[i], for an index inside the list
del_at(lines, i) == Take(lines, i) \o Drop(lines, i + 1)

\* one pass of the loop of apply_changes: [st, lines, inb]; inb says that
\* the index was inside the list when it was used
apply_step(lines, change) ==
    LET i == change[1] - 1
        op == change[2]
    IN  IF op = "I"
        THEN [st |-> "ok", lines |-> insert_at(lines, i, change[3]),
              inb |-> i <= Len(lines)]
        ELSE IF op = "D"
        THEN IF i >= Len(lines)
             THEN [st |-> "IndexError", lines |-> lines, inb |-> FALSE]
             ELSE [st |-> "ok", lines |-> del_at(lines, i), inb |-> TRUE]
        ELSE [st |-> "ok", lines |-> lines, inb |-> TRUE]

\* the loop of apply_changes: [st, lines, inb]
RECURSIVE apply_loop(_, _, _)
apply_loop(lines, changes, inb) ==
    IF changes = <<>> THEN [st |-> "ok", lines |-> lines, inb |-> inb]
    ELSE LET r == apply_step(lines, changes[1])
         IN  IF r.st # "ok" THEN r
             ELSE apply_loop(r.lines, Tail(changes), inb /\ r.inb)

\* apply_changes: [st, text, inb]
apply_changes(content, changes) ==
    LET r == apply_loop(split(content), changes, TRUE)
    IN  [st |-> r.st, text |-> join(r.lines), inb |-> r.inb]

Reverse(sq) == [k \in 1..Len(sq) |-> sq[Len(sq) + 1 - k]]

SwapOp(c) == IF c[2] = "D" THEN <<c[1], "I", c[3]>> ELSE <<c[1], "D", c[3]>>

\* reverse_changes that keeps the order of the list
reverse_changes_keep_order(changes) == [k \in 1..Len(changes) |-> SwapOp(changes[k])]

\* reverse_changes
reverse_changes(changes) == Reverse([k \in 1..Len(changes) |-> SwapOp(changes[k])])

NoApplied == [st |-> "none", text |-> <<>>]

InitDiff ==
    /\ FeedAtRest
    /\ vpc = "start"
    /\ \E t \in Texts, u \in Texts :
          vu = [op |-> "diff", old_version |-> t, new_version |-> u,
                d |-> get_changes_begin(<<>>, <<>>), which |-> "none",
                old_lines |-> <<>>, todo |-> <<>>, inb |-> TRUE,
                applied |-> NoApplied]

\* get_changes is called: the texts are split
GetChangesBegin ==
    /\ vpc = "start"
    /\ vpc' = "loop"
    /\ vu' = [vu EXCEPT !.d = get_changes_begin(vu.old_version, vu.new_version)]
    /\ UNCHANGED feedvars

\* one pass of its first loop
GetChangesStep ==
    /\ vpc = "loop"
    /\ Len(vu.d.old_lines) > 0 /\ Len(vu.d.new_lines) > 0
    /\ vu' = [vu EXCEPT !.d = get_changes_step(vu.d)]
    /\ UNCHANGED <<vpc, feedvars>>

\* the first loop is left, the other two run, the changes are returned
GetChangesEnd ==
    /\ vpc = "loop"
    /\ ~(Len(vu.d.old_lines) > 0 /\ Len(vu.d.new_lines) > 0)
    /\ vpc' = "diffed"
    /\ vu' = [vu EXCEPT !.d = get_changes_end(vu.d)]
    /\ UNCHANGED feedvars

\* apply_changes(old_version, changes) is called: the text is split
ApplyChanges ==
    /\ vpc = "diffed"
    /\ vpc' = "apply"
    /\ vu' = [vu EXCEPT !.which = "forward",
                        !.old_lines = split(vu.old_version),
                        !.todo = vu.d.changes]
    /\ UNCHANGED feedvars

\* apply_changes(new_version, reverse_changes(changes)) is called
ApplyReversed ==
    /\ vpc = "diffed"
    /\ vpc' = "apply"
    /\ vu' = [vu EXCEPT !.which = "reverse",
                        !.old_lines = split(vu.new_version),
                        !.todo = reverse_changes(vu.d.changes)]
    /\ UNCHANGED feedvars

\* one pass of the loop of apply_changes; del raises on an index outside
\* the list
ApplyStep ==
    /\ vpc = "apply"
    /\ vu.todo # <<>>
    /\ LET r == apply_step(vu.old_lines, Head(vu.todo))
       IN  IF r.st = "ok"
           THEN /\ vu' = [vu EXCEPT !.old_lines = r.lines, !.todo = Tail(@),
                                    !.inb = @ /\ r.inb]
                /\ UNCHANGED vpc
           ELSE /\ vu' = [vu EXCEPT !.inb = FALSE,
                                    !.applied = [st |-> r.st, text |-> <<>>]]
                /\ vpc' = "applied"
    /\ UNCHANGED feedvars

\* the loop is over: the lines are joined and returned
ApplyEnd ==
    /\ vpc = "apply"
    /\ vu.todo = <<>>
    /\ vpc' = "applied"
    /\ vu' = [vu EXCEPT !.applied = [st |-> "ok", text |-> join(vu.old_lines)]]
    /\ UNCHANGED feedvars

NextDiff ==
    \/ GetChangesBegin
    \/ GetChangesStep
    \/ GetChangesEnd
    \/ ApplyChanges
    \/ ApplyReversed
    \/ ApplyStep
    \/ ApplyEnd

\* get_changes runs without interruption, and its result is applied
SpecDiff == InitDiff /\ [][NextDiff]_vars /\ WF_vars(NextDiff)

\* the lines get_changes has still to look at
DiffLeft == Len(vu.d.old_lines) + Len(vu.d.new_lines)

\* C13: get_changes terminates (every pass of its loop shortens one of the
\* two lists, and the call returns), and applying its changes to the old
\* text gives the new text, with every insert and delete index inside the
\* line list at the moment it is used.
C13_DiffApplies ==
    /\ [][(vpc = "loop" /\ vpc' = "loop") => DiffLeft' < DiffLeft]_vars
    /\ <>(vpc = "diffed")
    /\ [](vu.which = "forward" => vu.inb)
    /\ []((vpc = "applied" /\ vu.which = "forward") =>
            /\ vu.applied.st = "ok"
            /\ vu.applied.text = vu.new_version)

C13_Witness ==
    /\ vpc = "applied"
    /\ vu.which = "forward"
    /\ vu.applied.text = vu.new_version
    /\ vu.old_version # vu.new_version
    /\ Len(vu.d.changes) >= 3
    /\ \E k \in 1..Len(vu.d.changes) : vu.d.changes[k][2] = "I"
    /\ \E k \in 1..Len(vu.d.changes) : vu.d.changes[k][2] = "D"

\* C14: applying the reversed changes of get_changes(old, new) to the new
\* text gives the old text.
C14_ReverseRestores ==
    (vpc = "applied" /\ vu.which = "reverse") =>
        /\ vu.applied.st = "ok"
        /\ vu.inb
        /\ vu.applied.text = vu.old_version

C14_Witness ==
    /\ vpc = "applied"
    /\ vu.which = "reverse"
    /\ vu.applied.text = vu.old_version
    /\ vu.old_version # vu.new_version
    /\ Len(vu.d.changes) >= 3
    /\ \E k \in 1..Len(vu.d.changes) : vu.d.changes[k][2] = "I"
    /\ \E k \in 1..Len(vu.d.changes) : vu.d.changes[k][2] = "D"

(* ------------------------- the encoding of a diff --------------------- *)

\* most changes in a list handed to changes_to_bytes
MaxChanges == 2

\* str.encode(): UTF-8, for code points below 2048
RECURSIVE utf8_encode(_)
utf8_encode(str) ==
    IF str = <<>> THEN <<>>
    ELSE IF Len(str) = 1
    THEN IF str[1] < 128 THEN <<str[1]>>
         ELSE <<192 + (str[1] \div 64), 128 + (str[1] % 64)>>
    ELSE utf8_encode(Take(str, Len(str) \div 2)) \o utf8_encode(Drop(str, Len(str) \div 2))

\* a byte that starts a character, with the byte after it
IsLead(p) == p[1] < 128 \/ p[1] >= 192

\* bytes.decode(), for what utf8_encode gives
utf8_decode(b) ==
    LET pairs == [i \in 1..Len(b) |-> <<b[i], IF i < Len(b) THEN b[i + 1] ELSE 0>>]
        leads == SelectSeq(pairs, IsLead)
    IN  [k \in 1..Len(leads) |->
            IF leads[k][1] < 128 THEN leads[k][1]
            ELSE (leads[k][1] - 192) * 64 + (leads[k][2] - 128)]

\* op.encode() and chr(byte) for the operations "I" and "D"
op_encode(op) == IF op = "I" THEN <<73>> ELSE <<68>>

chr(byte) == IF byte = 73 THEN "I" ELSE IF byte = 68 THEN "D" ELSE "?"

\* dependency.to_bytes(4, "big") and int.from_bytes(b[:4], "big")
to_bytes4(n) ==
    <<(n \div 16777216) % 256, (n \div 65536) % 256, (n \div 256) % 256, n % 256>>

from_bytes4(b) == ((b[1] * 256 + b[2]) * 256 + b[3]) * 256 + b[4]

\* the bytes of one change, behind their length
encode_change(change) ==
    LET b_change == to_var_int(change[1]) \o op_encode(change[2]) \o utf8_encode(change[3])
    IN  to_var_int(Len(b_change)) \o b_change

RECURSIVE encode_changes(_)
encode_changes(changes) ==
    IF changes = <<>> THEN <<>>
    ELSE encode_change(changes[1]) \o encode_changes(Tail(changes))

\* changes_to_bytes
changes_to_bytes(changes, dependency) == to_bytes4(dependency) \o encode_changes(changes)

\* the loop of bytes_to_changes with a line that starts at the operation
RECURSIVE decode_changes_op_in_line(_)
decode_changes_op_in_line(b) ==
    IF Len(b) = 0 THEN <<>>
    ELSE LET sz == from_var_int(b)
             change == Take(Drop(b, sz[2]), sz[1])
             rest == Drop(Drop(b, sz[2]), sz[1])
             ln == from_var_int(change)
         IN  <<<<ln[1], chr(change[ln[2] + 1]), utf8_decode(Drop(change, ln[2]))>>>>
             \o decode_changes_op_in_line(rest)

\* the loop of bytes_to_changes
RECURSIVE decode_changes(_)
decode_changes(b) ==
    IF Len(b) = 0 THEN <<>>
    ELSE LET sz == from_var_int(b)
             change == Take(Drop(b, sz[2]), sz[1])
             rest == Drop(Drop(b, sz[2]), sz[1])
             ln == from_var_int(change)
         IN  <<<<ln[1], chr(change[ln[2] + 1]), utf8_decode(Drop(change, ln[2] + 1))>>>>
             \o decode_changes(rest)

\* bytes_to_changes: (operations, dependency)
bytes_to_changes(b) == <<decode_changes(Drop(b, 4)), from_bytes4(Take(b, 4))>>

\* line numbers, lines and dependencies of the changes that are encoded:
\* numbers and lines whose varint takes one byte and three, a line with a
\* character that takes two bytes, dependencies up to the largest number
\* the model's integers hold (2^31 - 1)
CodecLineNums == {1, 300}

LongLine == [i \in 1..260 |-> LetterA]

CodecLines == {<<>>, <<LetterA, 233>>, LongLine}

CodecChanges == CodecLineNums \X {"I", "D"} \X CodecLines

CodecDeps == {0, 258, 2147483647}

InitCodec ==
    /\ FeedAtRest
    /\ vpc = "start"
    /\ \E n \in 0..MaxChanges :
          \E c \in [1..n -> CodecChanges], dep \in CodecDeps :
              vu = [op |-> "codec", changes |-> c, dependency |-> dep,
                    encoded |-> <<>>, decoded |-> <<>>, reencoded |-> <<>>]

\* changes_to_bytes(changes, dependency)
Encode ==
    /\ vpc = "start"
    /\ vpc' = "encoded"
    /\ vu' = [vu EXCEPT !.encoded = changes_to_bytes(vu.changes, vu.dependency)]
    /\ UNCHANGED feedvars

\* bytes_to_changes(encoded)
Decode ==
    /\ vpc = "encoded"
    /\ vpc' = "decoded"
    /\ vu' = [vu EXCEPT !.decoded = bytes_to_changes(vu.encoded)]
    /\ UNCHANGED feedvars

\* changes_to_bytes of what was decoded
Reencode ==
    /\ vpc = "decoded"
    /\ vpc' = "reencoded"
    /\ vu' = [vu EXCEPT !.reencoded = changes_to_bytes(vu.decoded[1], vu.decoded[2])]
    /\ UNCHANGED feedvars

NextCodec ==
    \/ Encode
    \/ Decode
    \/ Reencode

SpecCodec == InitCodec /\ [][NextCodec]_vars

\* C18: bytes_to_changes gives back the change list and the dependency that
\* changes_to_bytes encoded, and encoding what was decoded from an encoded
\* diff gives as many bytes as the diff has.
C18_DecodeInvertsEncode ==
    /\ vpc \in {"decoded", "reencoded"} =>
          /\ vu.decoded[1] = vu.changes
          /\ vu.decoded[2] = vu.dependency
    /\ vpc = "reencoded" => Len(vu.reencoded) = Len(vu.encoded)

C18_Witness ==
    /\ vpc = "reencoded"
    /\ Len(vu.changes) = 2
    /\ vu.changes[1] = <<300, "D", <<LetterA, 233>>>>
    /\ vu.changes[2][3] = LongLine
    /\ vu.dependency = 258
    /\ vu.decoded[1] = vu.changes
    /\ Len(vu.encoded) > 260

(* --------------------------- the version graph ------------------------ *)

\* highest node of the graphs handed to _dfs
MaxNode == 4

\* one pass of the loop that builds the adjacency: version i depends on
\* dep_on, each is listed under the other
tree_add(tree, i, dep_on) ==
    LET t1 == IF i \in DOMAIN tree THEN [tree EXCEPT ![i] = Append(@, dep_on)]
              ELSE tree @@ (i :> <<dep_on>>)
    IN  IF dep_on \in DOMAIN t1 THEN [t1 EXCEPT ![dep_on] = Append(@, i)]
        ELSE t1 @@ (dep_on :> <<i>>)

\* the adjacency of the versions i..max_version, deps[v] being the
\* dependency read from the update blob of v
RECURSIVE build_tree(_, _, _, _)
build_tree(i, max_version, deps, tree) ==
    IF i > max_version THEN tree
    ELSE build_tree(i + 1, max_version, deps, tree_add(tree, i, deps[i]))

EmptyTree == [n \in {} |-> <<>>]

Last(sq) == sq[Len(sq)]

\* the locals of _dfs before its loop
dfs_begin(start) == [st |-> "run", queue |-> <<<<start>>>>, visited |-> {start}, path |-> <<>>]

\* the neighbours of current that the inner loop of _dfs appends: those not
\* visited, each once, in the order of the list
dfs_new(nbrs, visited) ==
    SelectSeq(nbrs, LAMBDA n : n \notin visited)

Dedup(sq) ==
    LET idx == SelectSeq([k \in 1..Len(sq) |-> k],
                         LAMBDA k : \A j \in 1..(k - 1) : sq[j] # sq[k])
    IN  [k \in 1..Len(idx) |-> sq[idx[k]]]

\* one pass of the loop of _dfs whose inner loop leaves out the first
\* neighbour
dfs_step_skip_first(graph, end, q) ==
    LET path == Head(q.queue)
        current == Last(path)
        rest == Tail(q.queue)
    IN  IF current = end THEN [q EXCEPT !.st = "found", !.path = path, !.queue = rest]
        ELSE IF current \notin DOMAIN graph THEN [q EXCEPT !.st = "KeyError", !.queue = rest]
        ELSE LET new == Dedup(dfs_new(Tail(graph[current]), q.visited))
             IN  [q EXCEPT !.queue = rest \o [k \in 1..Len(new) |-> Append(path, new[k])],
                           !.visited = @ \cup {new[k] : k \in 1..Len(new)}]

\* one pass of the loop of _dfs: the queue holds a path
dfs_step(graph, end, q) ==
    LET path == Head(q.queue)
        current == Last(path)
        rest == Tail(q.queue)
    IN  IF current = end THEN [q EXCEPT !.st = "found", !.path = path, !.queue = rest]
        ELSE IF current \notin DOMAIN graph THEN [q EXCEPT !.st = "KeyError", !.queue = rest]
        ELSE LET new == Dedup(dfs_new(graph[current], q.visited))
             IN  [q EXCEPT !.queue = rest \o [k \in 1..Len(new) |-> Append(path, new[k])],
                           !.visited = @ \cup {new[k] : k \in 1..Len(new)}]

\* the queue is empty: [] is returned
dfs_end(q) == [q EXCEPT !.st = "empty", !.path = <<>>]

RECURSIVE dfs_run(_, _, _)
dfs_run(graph, end, q) ==
    IF q.st # "run" THEN q
    ELSE IF q.queue = <<>> THEN dfs_end(q)
    ELSE dfs_run(graph, end, dfs_step(graph, end, q))

\* _dfs: [st, path, ...]
dfs(graph, start, end) == dfs_run(graph, end, dfs_begin(start))

InitPath ==
    /\ FeedAtRest
    /\ vpc = "start"
    /\ \E deps \in [1..MaxNode -> 0..MaxNode], a \in 0..MaxNode, b \in 0..MaxNode :
          vu = [op |-> "dfs", graph |-> build_tree(1, MaxNode, deps, EmptyTree),
                start |-> a, end |-> b, q |-> dfs_begin(a)]

\* _dfs is called
DfsBegin ==
    /\ vpc = "start"
    /\ vpc' = "loop"
    /\ vu' = [vu EXCEPT !.q = dfs_begin(vu.start)]
    /\ UNCHANGED feedvars

\* one pass of its loop; it ends the call when the path reaches end, or
\* with a KeyError when the node has no entry in the graph
DfsStep ==
    /\ vpc = "loop"
    /\ vu.q.queue # <<>>
    /\ vu' = [vu EXCEPT !.q = dfs_step(vu.graph, vu.end, vu.q)]
    /\ vpc' = IF vu'.q.st = "run" THEN "loop" ELSE "returned"
    /\ UNCHANGED feedvars

\* the queue is empty
DfsEnd ==
    /\ vpc = "loop"
    /\ vu.q.queue = <<>>
    /\ vu' = [vu EXCEPT !.q = dfs_end(vu.q)]
    /\ vpc' = "returned"
    /\ UNCHANGED feedvars

NextPath ==
    \/ DfsBegin
    \/ DfsStep
    \/ DfsEnd

\* _dfs runs without interruption
SpecPath == InitPath /\ [][NextPath]_vars /\ WF_vars(NextPath)

\* a and b are listed under each other
Adjacent(graph, a, b) ==
    /\ a \in DOMAIN graph
    /\ \E k \in 1..Len(graph[a]) : graph[a][k] = b

\* the nodes within k edges of the node a
RECURSIVE Ball(_, _, _)
Ball(graph, a, k) ==
    IF k = 0 THEN {a}
    ELSE LET B == Ball(graph, a, k - 1)
         IN  B \cup {n \in DOMAIN graph : \E m \in B : Adjacent(graph, m, n)}

\* the number of edges of a shortest path from a to b; -1 when there is none
Distance(graph, a, b) ==
    IF b \notin Ball(graph, a, MaxNode + 1) THEN -1
    ELSE CHOOSE k \in 0..(MaxNode + 1) :
            /\ b \in Ball(graph, a, k)
            /\ \A j \in 0..(k - 1) : b \notin Ball(graph, a, j)

\* C17: _dfs terminates, and when end can be reached from start it returns a
\* path that begins with start, ends with end, goes along edges of the
\* graph, visits no node twice, and has as few edges as any path from start
\* to end.
C17_ShortestPath ==
    /\ <>(vpc = "returned")
    /\ [](vpc = "returned" =>
            LET p == vu.q.path
                dist == Distance(vu.graph, vu.start, vu.end)
            IN  dist >= 0 =>
                  /\ vu.q.st = "found"
                  /\ p[1] = vu.start
                  /\ Last(p) = vu.end
                  /\ \A k \in 1..(Len(p) - 1) : Adjacent(vu.graph, p[k], p[k + 1])
                  /\ \A j, k \in 1..Len(p) : j # k => p[j] # p[k]
                  /\ Len(p) - 1 = dist)

C17_Witness ==
    /\ vpc = "returned"
    /\ vu.q.st = "found"
    /\ Len(vu.q.path) = 3
    /\ Distance(vu.graph, vu.start, vu.end) = 2
    /\ \E n \in DOMAIN vu.graph :
          /\ n \notin {vu.q.path[k] : k \in 1..3}
          /\ Adjacent(vu.graph, vu.start, n)
          /\ n \in Ball(vu.graph, vu.end, 2)

(* ------------------------ jumps between versions ---------------------- *)

\* highest version of the update feeds
MaxVersion == 4

\* the file at version v: one to three lines of no, one or two letters,
\* different for every version
VersionText(v) ==
    join([k \in 1..((v % 3) + 1) |->
             [j \in 1..((v + k * (1 + (v \div 3))) % 3) |-> LetterA]])

\* the update blob of version v, which depends on version deps[v]: the
\* encoded changes from the file at deps[v] to the file at v
VersionChanges(deps, v) == get_changes(VersionText(deps[v]), VersionText(v))

get_update_blob(deps, v) == changes_to_bytes(VersionChanges(deps, v), deps[v])

\* The feeds that carry the updates, the feed handed to jump_versions
\* first: one feed with all versions, or a feed with the versions above
\* cut whose parent has the versions up to cut.  <<>> stands for None,
\* parent is the place of the parent feed in the list, 0 for none.
FeedChain(cut) ==
    IF cut = 0
    THEN <<[minv |-> <<1>>, maxv |-> <<MaxVersion>>, parent |-> 0]>>
    ELSE <<[minv |-> <<cut + 1>>, maxv |-> <<MaxVersion>>, parent |-> 2],
           [minv |-> <<1>>, maxv |-> <<cut>>, parent |-> 0]>>

Splits == {0, MaxVersion \div 2}

Max(a, b) == IF a > b THEN a ELSE b

\* the first loop of extract_version_tree: [access, max_version]
RECURSIVE walk_feeds(_, _, _, _)
walk_feeds(chain, cur, access, max_version) ==
    LET f == chain[cur]
    IN  IF f.minv = <<>> \/ f.maxv = <<>>
        THEN [access |-> access, max_version |-> max_version]
        ELSE LET range == f.minv[1]..f.maxv[1]
                 acc == [i \in DOMAIN access \cup range |->
                            IF i \in range THEN cur ELSE access[i]]
                 mx == Max(f.maxv[1], max_version)
             IN  IF f.parent = 0 THEN [access |-> acc, max_version |-> mx]
                 ELSE walk_feeds(chain, f.parent, acc, mx)

\* extract_version_tree: [st, tree, access, reads]; access_dict[i] raises
\* for a version that no feed owns.  reads lists the versions whose update
\* blob the second loop fetches, in order.
extract_version_tree(chain, deps) ==
    LET w == walk_feeds(chain, 1, [i \in {} |-> 0], -1)
        dep_on == [i \in 1..w.max_version |-> from_bytes4(Take(get_update_blob(deps, i), 4))]
        missing == {i \in 1..w.max_version : i \notin DOMAIN w.access}
    IN  IF missing # {}
        THEN [st |-> "KeyError", tree |-> EmptyTree, access |-> w.access,
              max_version |-> w.max_version,
              reads |-> [i \in 1..((CHOOSE i \in missing : \A j \in missing : i <= j) - 1) |-> i]]
        ELSE [st |-> "ok", tree |-> build_tree(1, w.max_version, dep_on, EmptyTree),
              access |-> w.access, max_version |-> w.max_version,
              reads |-> [i \in 1..w.max_version |-> i]]

mono_inc(lst) == \A k \in 1..(Len(lst) - 1) : lst[k] < lst[k + 1]

mono_dec(lst) == \A k \in 1..(Len(lst) - 1) : lst[k] > lst[k + 1]

not_mono_inc(lst) == ~mono_inc(lst)

\* takewhile: the elements lst[i] up to the first whose rest lst[i:] fails
\* the predicate; predicate[i] is what the predicate says of lst[i:]
takewhile(predicate, lst) ==
    Take(lst, Cardinality({i \in 1..Len(lst) : \A j \in 1..i : predicate[j]}))

\* not_mono_inc as takewhile calls it, on every rest of the list
not_mono_inc_of(lst) == [i \in 1..Len(lst) |-> not_mono_inc(Drop(lst, i - 1))]

Steps(path, what) == [k \in 1..Len(path) |-> <<path[k], what>>]

\* the versions whose update jump_versions reads, in order, each to be
\* reverted or applied; the mixed case with nothing left out after the
\* first half
jump_plan_keep_pivot(update_path) ==
    IF mono_inc(update_path) THEN Steps(Tail(update_path), "apply")
    ELSE IF mono_dec(update_path)
    THEN Steps(Take(update_path, Len(update_path) - 1), "revert")
    ELSE LET first_half == takewhile(not_mono_inc_of(update_path), update_path)
             second_half == Drop(update_path, Len(first_half))
         IN  Steps(first_half, "revert") \o Steps(second_half, "apply")

\* the versions whose update jump_versions reads, in order, each to be
\* reverted or applied
jump_plan(update_path) ==
    IF mono_inc(update_path) THEN Steps(Tail(update_path), "apply")
    ELSE IF mono_dec(update_path)
    THEN Steps(Take(update_path, Len(update_path) - 1), "revert")
    ELSE LET first_half == takewhile(not_mono_inc_of(update_path), update_path)
             second_half == Drop(update_path, Len(first_half) + 1)
         IN  Steps(first_half, "revert") \o Steps(second_half, "apply")

\* the changes of the steps of a plan, none of them reversed
RECURSIVE plan_changes_no_revert(_, _)
plan_changes_no_revert(deps, plan) ==
    IF plan = <<>> THEN <<>>
    ELSE bytes_to_changes(get_update_blob(deps, plan[1][1]))[1]
         \o plan_changes_no_revert(deps, Tail(plan))

\* the changes of the steps of a plan, each decoded from its update blob
RECURSIVE plan_changes(_, _)
plan_changes(deps, plan) ==
    IF plan = <<>> THEN <<>>
    ELSE LET changes == bytes_to_changes(get_update_blob(deps, plan[1][1]))[1]
         IN  (IF plan[1][2] = "revert" THEN reverse_changes(changes) ELSE changes)
             \o plan_changes(deps, Tail(plan))

NoJump == [st |-> "none", all_changes |-> <<>>, plan |-> <<>>, path |-> <<>>, reads |-> <<>>]

\* jump_versions: [st, all_changes, plan, path, reads]; reads lists the
\* versions whose update blob the call fetches, in order
jump_versions(start, end, chain, deps) ==
    IF start = end THEN [NoJump EXCEPT !.st = "ok"]
    ELSE LET t == extract_version_tree(chain, deps)
         IN  IF t.st # "ok" THEN [NoJump EXCEPT !.st = t.st, !.reads = t.reads]
             ELSE IF \A v \in DOMAIN t.access : start > v \/ end > v
             THEN [NoJump EXCEPT !.st = "not available", !.reads = t.reads]
             ELSE LET r == dfs(t.tree, start, end)
                      plan == jump_plan(r.path)
                  IN  IF r.st = "KeyError" THEN [NoJump EXCEPT !.st = r.st, !.reads = t.reads]
                      ELSE IF r.path = <<>>
                      THEN [NoJump EXCEPT !.st = "IndexError", !.reads = t.reads]
                      ELSE IF \E k \in 1..Len(plan) : plan[k][1] \notin DOMAIN t.access
                      THEN [NoJump EXCEPT !.st = "KeyError", !.path = r.path,
                                          !.reads = t.reads]
                      ELSE [st |-> "ok", all_changes |-> plan_changes(deps, plan),
                            plan |-> plan, path |-> r.path,
                            reads |-> t.reads \o [k \in 1..Len(plan) |-> plan[k][1]]]

\* version graphs in which every version depends on a smaller one
TreeDeps == {deps \in [1..MaxVersion -> 0..(MaxVersion - 1)] :
                \A v \in 1..MaxVersion : deps[v] < v}

InitJump ==
    /\ FeedAtRest
    /\ vpc = "start"
    /\ \E deps \in TreeDeps, k \in Splits, a \in 0..MaxVersion, b \in 0..MaxVersion :
          vu = [op |-> "jump", deps |-> deps, chain |-> FeedChain(k),
                start |-> a, end |-> b, there |-> NoJump, back |-> NoJump,
                text |-> VersionText(a), applied |-> NoApplied, inb |-> TRUE]

\* jump_versions(start, end)
Jump ==
    /\ vpc = "start"
    /\ vpc' = "jumped"
    /\ vu' = [vu EXCEPT !.there = jump_versions(vu.start, vu.end, vu.chain, vu.deps)]
    /\ UNCHANGED feedvars

\* its changes are applied to the file, which is at version start
ApplyThere ==
    /\ vpc = "jumped"
    /\ vpc' = "there"
    /\ LET r == apply_changes(vu.text, vu.there.all_changes)
       IN  vu' = [vu EXCEPT !.applied = [st |-> r.st, text |-> r.text],
                            !.text = r.text, !.inb = @ /\ r.inb]
    /\ UNCHANGED feedvars

\* jump_versions(end, start)
JumpBack ==
    /\ vpc = "there"
    /\ vpc' = "jumped back"
    /\ vu' = [vu EXCEPT !.back = jump_versions(vu.end, vu.start, vu.chain, vu.deps)]
    /\ UNCHANGED feedvars

\* its changes are applied to the file
ApplyBack ==
    /\ vpc = "jumped back"
    /\ vpc' = "back"
    /\ LET r == apply_changes(vu.text, vu.back.all_changes)
       IN  vu' = [vu EXCEPT !.applied = [st |-> r.st, text |-> r.text],
                            !.text = r.text, !.inb = @ /\ r.inb]
    /\ UNCHANGED feedvars

NextJump ==
    \/ Jump
    \/ ApplyThere
    \/ JumpBack
    \/ ApplyBack

SpecJump == InitJump /\ [][NextJump]_vars

\* C15: the changes of jump_versions(a, b) and then those of
\* jump_versions(b, a), applied to the file at version a, give that file
\* again (and the file at version b in between).
C15_JumpThereAndBack ==
    /\ vpc \in {"jumped", "there", "jumped back", "back"} => vu.there.st = "ok"
    /\ vpc \in {"jumped back", "back"} => vu.back.st = "ok"
    /\ vpc \in {"there", "back"} => (vu.applied.st = "ok" /\ vu.inb)
    /\ vpc = "there" => vu.text = VersionText(vu.end)
    /\ vpc = "back" => vu.text = VersionText(vu.start)

C15_Witness ==
    /\ vpc = "back"
    /\ vu.text = VersionText(vu.start)
    /\ Len(vu.there.path) = 4
    /\ ~mono_inc(vu.there.path)
    /\ ~mono_dec(vu.there.path)
    /\ Len(vu.there.all_changes) >= 3
    /\ Len(vu.back.all_changes) >= 3
    /\ Len(vu.chain) = 2

\* the place of the smallest version of a path
Pivot(path) == CHOOSE m \in 1..Len(path) : \A k \in 1..Len(path) : path[m] <= path[k]

\* the changes of the versions path[from..to], each reverted or applied,
\* computed from the files and not from the blobs
RECURSIVE PathChanges(_, _, _, _, _)
PathChanges(deps, path, from, to, what) ==
    IF from > to THEN <<>>
    ELSE (IF what = "revert" THEN reverse_changes(VersionChanges(deps, path[from]))
          ELSE VersionChanges(deps, path[from]))
         \o PathChanges(deps, path, from + 1, to, what)

\* what C16 says of the order: the reverted changes of the versions before
\* the ancestor, start first, then the changes of the versions after it,
\* end last; neither list has the ancestor
JumpOrder(j, deps, start, end) ==
    LET p == j.path
        m == Pivot(p)
    IN  /\ j.st = "ok"
        /\ p[1] = start
        /\ Last(p) = end
        /\ j.plan = Steps(Take(p, m - 1), "revert") \o Steps(Drop(p, m), "apply")
        /\ \A k \in 1..Len(j.plan) : j.plan[k][1] # p[m]
        /\ j.all_changes =
              PathChanges(deps, p, 1, m - 1, "revert") \o
              PathChanges(deps, p, m + 1, Len(p), "apply")
        /\ mono_inc(p) => m = 1
        /\ mono_dec(p) => m = Len(p)

\* C16: along a path that goes down to a common ancestor and up to end,
\* jump_versions returns the reverted changes of the versions before the
\* ancestor, start first, and then the changes of the versions after it,
\* end last; the ancestor is neither applied nor reverted and its update
\* blob is never fetched.  Of a rising path the first version is left out
\* and the others are applied, of a falling path the last is left out and
\* the others are reverted.
C16_JumpOrder ==
    (vpc = "jumped" /\ vu.start # vu.end) =>
        /\ JumpOrder(vu.there, vu.deps, vu.start, vu.end)
        /\ \A k \in 1..Len(vu.there.reads) :
              vu.there.reads[k] # vu.there.path[Pivot(vu.there.path)]

\* C16, amended: the order and the skipped version are as C16 says, and
\* the ancestor's update blob is not fetched for its changes; it is fetched
\* once, as every version's from 1 on is, by extract_version_tree, which
\* reads the dependency in its first four bytes.
C16_JumpOrderBlobReadForDependency ==
    (vpc = "jumped" /\ vu.start # vu.end) =>
        LET p == vu.there.path
            pivot == p[Pivot(p)]
            n == Len(vu.there.reads) - Len(vu.there.plan)
        IN  /\ JumpOrder(vu.there, vu.deps, vu.start, vu.end)
            /\ Take(vu.there.reads, n) = [i \in 1..MaxVersion |-> i]
            /\ Drop(vu.there.reads, n) =
                  [k \in 1..Len(vu.there.plan) |-> vu.there.plan[k][1]]
            /\ Cardinality({k \in 1..Len(vu.there.reads) : vu.there.reads[k] = pivot})
                  = (IF pivot = 0 THEN 0 ELSE 1)

C16_Witness ==
    /\ vpc = "jumped"
    /\ Len(vu.there.path) = 4
    /\ Pivot(vu.there.path) = 3
    /\ vu.there.path[3] # 0
    /\ \E k \in 1..MaxVersion : vu.there.reads[k] = vu.there.path[3]
    /\ Len(vu.there.plan) = 3
    /\ vu.there.plan[1][2] = "revert"
    /\ vu.there.plan[3][2] = "apply"
    /\ Len(vu.there.all_changes) >= 3

\* C19: get_contn returns the first 32 bytes of the last packet's payload
\* exactly when has_ended is True, and None, without raising, in every
\* other case, a feed that holds no packet among them.
C19_ContnIffEnded ==
    (pc = "idle" /\ feed.open /\ ret.op = "get_contn") =>
        IF has_ended(feed, frames) = "True"
        THEN /\ ret.st = "ok"
             /\ ret.val = <<Take(PayloadBytes(getitem(feed, frames, -1).pkt.payload), FidLen)>>
        ELSE ret.st = "None"

\* C20: whenever the feed is open and no append is under way, front_mid is
\* the last element of mids and mids has front_seq - anchor_seq + 1
\* elements, also on a feed that holds no packet and on one whose anchor
\* is above 0.
C20_FrontMidIsLastMid ==
    (pc = "idle" /\ feed.open) =>
        /\ Len(feed.mids) = feed.front_seq - feed.anchor_seq + 1
        /\ feed.front_mid = feed.mids[Len(feed.mids)]

\* C21: between calls has_ended returns True or False, without raising, on
\* every feed, the truncated feed that holds no packet among them; and
\* every call of append_bytes on a feed that has not ended returns True.
C21_AppendOnOpenFeedSucceeds ==
    /\ []((pc = "idle" /\ feed.open) => has_ended(feed, frames) \in {"True", "False"})
    /\ [][(AppendReturns /\ ret'.op = "append_bytes" /\ has_ended(feed, frames) # "True")
            => ret'.st = "True"]_vars

\* a stretch of the .log file: len bytes at offset at
Seg(at, len, val) == [at |-> at, len |-> len, val |-> val]

\* the 128 bytes of the header as __init__ slices them
HeaderFile(hdr) ==
    <<Seg(0, HdrReservedLen, hdr.reserved),
      Seg(HdrReservedLen, FidLen, hdr.fid),
      Seg(HdrReservedLen + FidLen, FidLen, hdr.parent_id),
      Seg(HdrReservedLen + 2 * FidLen, 4, to_bytes4(hdr.parent_seq)),
      Seg(HdrReservedLen + 2 * FidLen + 4, 4, to_bytes4(hdr.anchor_seq)),
      Seg(HdrReservedLen + 2 * FidLen + 8, PtrLen, hdr.anchor_mid),
      Seg(FrontAt, 4, to_bytes4(hdr.front_seq)),
      Seg(FrontAt + 4, PtrLen, hdr.front_mid)>>

\* the 128 bytes of the frame at place k: reserved bytes and wire
FrameFile(k, f) ==
    <<Seg(FrameSize * k, Len(f.res), f.res),
      Seg(FrameSize * k + Len(f.res), WireLen, f.wire)>>

\* the whole .log file
FileContent(hdr, fs) ==
    HeaderFile(hdr) \o
    [i \in 1..(2 * Len(fs)) |-> FrameFile((i + 1) \div 2, fs[(i + 1) \div 2])[2 - (i % 2)]]

\* file_content[from:to]
Slice(file_content, from, to) ==
    SelectSeq(file_content, LAMBDA g : from <= g.at /\ g.at + g.len <= to)

\* the file as _update_header writes it back:
\* file_content[:104] + new_info + file_content[128:]
update_header_content(file_content, fd) ==
    LET new_info == <<Seg(FrontAt, 4, to_bytes4(fd.front_seq)),
                      Seg(FrontAt + 4, PtrLen, fd.front_mid)>>
        last == file_content[Len(file_content)]
    IN  Slice(file_content, 0, FrontAt) \o new_info \o
        Slice(file_content, FrameSize, last.at + last.len)

\* C22: an append that succeeds writes the new frame, 8 zero bytes and
\* the packet's 120 wire bytes, behind the file as it was, and then
\* rewrites the header so that bytes [104..128) are the handle's front_seq
\* and front_mid; bytes [0..104) and every frame stay as they were.
C22_AppendWritesFrontAndNewFrame ==
    [][/\ (pc = "idle" /\ pc' = "written") =>
             FileContent(header', frames') =
                 FileContent(header, frames) \o
                 FrameFile(Len(frames) + 1,
                           [res |-> Zeros(ReservedLen), wire |-> pend'.pkt.wire])
       /\ (pc = "written" /\ pc' # "written") =>
             LET before == FileContent(header, frames)
                 after == FileContent(header', frames')
                 size == FrameSize * (Len(frames) + 1)
             IN  /\ after = update_header_content(before, feed')
                 /\ Slice(after, 0, FrontAt) = Slice(before, 0, FrontAt)
                 /\ Slice(after, FrameSize, size) = Slice(before, FrameSize, size)
                 /\ Len(Slice(before, 0, FrontAt)) = 6
                 /\ Len(Slice(before, FrameSize, size)) = 2 * Len(frames)
                 /\ Slice(after, FrontAt, FrameSize) =
                       <<Seg(FrontAt, 4, to_bytes4(feed'.front_seq)),
                         Seg(FrontAt + 4, PtrLen, feed'.front_mid)>>
                 /\ feed'.front_seq = feed.front_seq + 1
                 /\ feed'.front_mid = pend.pkt.mid]_vars

C22_Witness ==
    /\ pc = "idle"
    /\ ret.op = "append_bytes"
    /\ ret.st = "True"
    /\ Len(frames) = 2
    /\ Slice(FileContent(header, frames), FrontAt, FrameSize) =
          <<Seg(FrontAt, 4, to_bytes4(2)), Seg(FrontAt + 4, PtrLen, feed.front_mid)>>
    /\ frames[2].res = Zeros(ReservedLen)
    /\ header.anchor_mid = FidMid

\* The chains of feeds extract_version_tree is handed: those of FeedChain,
\* a feed with the versions above cut whose parent reports no update
\* version, one whose parent has the versions below cut only, so that cut
\* belongs to no feed, and a single feed that reports no update version.
TreeChains ==
    {FeedChain(cut) : cut \in Splits} \cup
    {<<[minv |-> <<cut + 1>>, maxv |-> <<MaxVersion>>, parent |-> 2],
       [minv |-> <<>>, maxv |-> <<>>, parent |-> 0]>> : cut \in Splits \ {0}} \cup
    {<<[minv |-> <<cut + 1>>, maxv |-> <<MaxVersion>>, parent |-> 2],
       [minv |-> <<1>>, maxv |-> <<cut - 1>>, parent |-> 0]>> : cut \in Splits \ {0}} \cup
    {<<[minv |-> <<>>, maxv |-> <<>>, parent |-> 0]>>}

NoTree == [st |-> "none", tree |-> EmptyTree, access |-> [i \in {} |-> 0],
           max_version |-> -1, reads |-> <<>>]

InitTree ==
    /\ FeedAtRest
    /\ vpc = "start"
    /\ \E deps \in [1..MaxVersion -> 0..MaxVersion], chain \in TreeChains :
          vu = [op |-> "tree", deps |-> deps, chain |-> chain, t |-> NoTree]

\* extract_version_tree(feed, feed_manager)
ExtractVersionTree ==
    /\ vpc = "start"
    /\ vpc' = "extracted"
    /\ vu' = [vu EXCEPT !.t = extract_version_tree(vu.chain, vu.deps)]
    /\ UNCHANGED feedvars

NextTree == ExtractVersionTree

SpecTree == InitTree /\ [][NextTree]_vars

\* j is listed under i exactly when i is listed under j
Symmetric(tree) ==
    \A i \in DOMAIN tree : \A k \in 1..Len(tree[i]) :
        /\ tree[i][k] \in DOMAIN tree
        /\ \E l \in 1..Len(tree[tree[i][k]]) : tree[tree[i][k]][l] = i

\* C23: extract_version_tree never looks up a version that no feed owns:
\* whatever chain of feeds it walks, one that stops early or leaves a gap
\* among them, every version in 1..max_version is in the access map when
\* the adjacency is built, and the adjacency it returns is symmetric.
C23_EveryVersionOwned ==
    vpc = "extracted" =>
        /\ vu.t.st = "ok"
        /\ \A i \in 1..vu.t.max_version : i \in DOMAIN vu.t.access
        /\ Symmetric(vu.t.tree)

====
